---- MODULE Spec2Model ----
(***************************************************************************)
(* PinThePiece note storage engine (src/src/pinthepiece/server.py):        *)
(* the ResourceManager with its asyncio lock, in-memory cache, subscriber  *)
(* queues, and the storage directory (index file, note files, backups).    *)
(*                                                                         *)
(* Text is a sequence of one-character strings.  An Optional value is a    *)
(* sequence of length at most one: None is <<>>, a present value x is <<x>>.*)
(***************************************************************************)
EXTENDS Naturals, Sequences, FiniteSets, TLC

\* ------------------------------------------------------------------ bounds
MaxQueues == 1
MaxTime == 1
MaxQueued == 2
TicksPerMonth == 2

\* ---------------------------------------------------------- input domains
Procs == {1, 2}
QueueIds == 1..MaxQueues
Times == 0..MaxTime

None == <<>>
Some(x) == <<x>>
IsNone(o) == Len(o) = 0
Val(o) == o[1]

\* str.lower, on the alphabet in use
LowerChar(c) == IF c = "H" THEN "h" ELSE c
Lower(s) == [i \in DOMAIN s |-> LowerChar(s[i])]

\* Python's `needle in hay` for strings
Contains(hay, needle) ==
    \E i \in 0..Len(hay) :
        /\ i + Len(needle) <= Len(hay)
        /\ SubSeq(hay, i + 1, i + Len(needle)) = needle

\* str.split(',')
RECURSIVE Split(_)
Split(s) ==
    IF \A i \in DOMAIN s : s[i] # ","
    THEN <<s>>
    ELSE LET k == CHOOSE i \in DOMAIN s :
                      s[i] = "," /\ \A j \in 1..(i - 1) : s[j] # ","
         IN  <<SubSeq(s, 1, k - 1)>> \o Split(SubSeq(s, k + 1, Len(s)))

\* str.strip()
RECURSIVE Strip(_)
Strip(s) ==
    IF s = <<>> THEN s
    ELSE IF Head(s) = " " THEN Strip(Tail(s))
    ELSE IF s[Len(s)] = " " THEN Strip(SubSeq(s, 1, Len(s) - 1))
    ELSE s

Range(f) == {f[i] : i \in DOMAIN f}

Names == {<<"a">>, <<"b">>}
Contents == {<<"H", "i">>, <<"y", "o">>}
\* the optional arguments of add_note
AddExtras ==
    { [tags |-> None, description |-> None],
      [tags |-> Some(<< <<"u">>, <<"d">> >>), description |-> Some(<<"d", "e">>)] }
\* the optional arguments of update_note: content only, tags only,
\* description only
UpdateFields ==
    { [content |-> Some(<<"y", "o">>), tags |-> None, description |-> None],
      [content |-> None, tags |-> Some(<< <<"x">> >>), description |-> None],
      [content |-> None, tags |-> None, description |-> Some(<<"H", "i">>)] }
\* the arguments of search_notes
SearchFields == {"content", "tags", "description"}
Searches ==
    { [query |-> <<"h">>, search_in |-> None, match_all_tags |-> FALSE],
      [query |-> <<"u", ",", " ", "x">>, search_in |-> Some({"tags"}),
       match_all_tags |-> TRUE] }

\* Note.VERSION (the string "1.0.0"; versions are compared with >)
VERSION == 1

\* ------------------------------------------------------------ Note format
\* datetime.isoformat / datetime.fromisoformat
IsoFormat(t) == <<"iso", t>>
FromIsoFormat(s) == s[2]

\* hashlib.sha256(...).hexdigest() of content + created + modified
Checksum(content, created, modified) ==
    <<"sha256", content, IsoFormat(created), IsoFormat(modified)>>

\* Note(name, content, created, modified, tags, description): the dataclass
\* with its default metadata
NewNote(name, content, created, modified, tags, description) ==
    [name |-> name, content |-> content, created |-> created,
     modified |-> modified, tags |-> tags, description |-> description,
     metadata |-> [format_version |-> VERSION, last_backup |-> None,
                   checksum |-> None]]

\* Note.to_dict has a side effect on the note: its metadata gets the checksum.
Checksummed(note) ==
    [note EXCEPT !.metadata.checksum =
                    Some(Checksum(note.content, note.created, note.modified))]

\* Note.to_dict: the document holds the note's own metadata dict, so the
\* checksum set after the document is built is in the document as well.
ToDict(note) ==
    [name |-> note.name, content |-> note.content, tags |-> note.tags,
     description |-> note.description, created |-> IsoFormat(note.created),
     version |-> VERSION, metadata |-> Checksummed(note).metadata,
     modified |-> IsoFormat(note.modified)]

\* A result of an operation that may raise.
Raise(e) == [ok |-> FALSE, err |-> e]

\* Note.from_dict: the version check, the construction of the note, and then the
\* checksum validation, whose first expression reads the undefined name
\* `metadata` and raises NameError on every document that got that far.
FromDictBody(data) ==
    IF data.version > VERSION
    THEN Raise("ValueError")
    ELSE Raise("NameError")

FromDict(data) == FromDictBody(data)

\* json.dump / json.load on a file: a file holds either the text of a JSON
\* value or text that is not JSON.
JsonDump(value) == <<"json", value>>
Malformed == <<"garbage">>
JsonLoad(file) ==
    IF file[1] = "json"
    THEN [ok |-> TRUE, value |-> file[2]]
    ELSE Raise("JSONDecodeError")

\* --------------------------------------------------------------- file store
\* str.isalnum, on the alphabet in use
Alnum == {"a", "b", "d", "e", "h", "i", "o", "u", "x", "y", "H"}

\* safe_name of _get_note_path
SafeName(name) ==
    [i \in DOMAIN name |->
        IF name[i] \in Alnum \/ name[i] \in {"-", "_"} THEN name[i] ELSE "_"]

\* the year/month directory of a creation time
YearMonth(t) == t \div TicksPerMonth

\* _load_index: the stored mapping, or {} when the file is missing or unreadable
LoadIndex(idx) == IF IsNone(idx) THEN <<>> ELSE Val(idx)

\* _get_note_path(name, created): created is an Optional time; when absent it
\* is recovered from the index, falling back to the current time.
GetNotePath(name, created, idx, t) ==
    LET index == LoadIndex(idx)
        c == IF ~IsNone(created) THEN Val(created)
             ELSE IF name \in DOMAIN index
                  THEN FromIsoFormat(index[name].created)
                  ELSE t
    IN  [dir |-> YearMonth(c), file |-> SafeName(name)]

\* the body of the try block of _load_notes, for one file
LoadNoteFile(file) ==
    LET data == JsonLoad(file)
    IN  IF data.ok THEN FromDict(data.value) ELSE data

\* _load_notes: every index entry whose file exists and deserializes; a
\* missing file, a JSONDecodeError and any other exception skip the entry.
LoadNotes(idx, files) ==
    LET index == LoadIndex(idx)
        loadable == {n \in DOMAIN index :
                        /\ index[n].path \in DOMAIN files
                        /\ LoadNoteFile(files[index[n].path]).ok}
    IN  [n \in loadable |-> LoadNoteFile(files[index[n].path]).note]

\* -------------------------------------------------------- storage directory
\* A note document as a correct writer of the format would have stored it.
StoredDoc(name, content, t) == ToDict(NewNote(name, content, t, t, <<>>, None))

IndexEntry(name, t) ==
    [path |-> [dir |-> YearMonth(t), file |-> SafeName(name)],
     created |-> IsoFormat(t), modified |-> IsoFormat(t), version |-> VERSION]

\* A directory with one good note and three bad ones: "a" is well formed,
\* the checksum of "b" belongs to other content, the file of "x" is not
\* JSON, and "y" was written by a later version of the format.
MixedNames == {<<"a">>, <<"b">>, <<"x">>, <<"y">>}
MixedFile(name) ==
    LET doc == StoredDoc(name, <<"H", "i">>, 0)
    IN  IF name = <<"b">>
        THEN JsonDump([doc EXCEPT !.metadata.checksum =
                                      Some(Checksum(<<"y", "o">>, 0, 0))])
        ELSE IF name = <<"x">> THEN Malformed
        ELSE IF name = <<"y">> THEN JsonDump([doc EXCEPT !.version = VERSION + 1])
        ELSE JsonDump(doc)

\* The storage directories a manager may be started on: empty, holding one
\* indexed note, holding an index entry whose file is gone, and holding one
\* good note among bad ones.
InitialStores ==
    { [index |-> None, files |-> <<>>],
      [index |-> Some([n \in {<<"a">>} |-> IndexEntry(n, 0)]),
       files |-> [f \in {IndexEntry(<<"a">>, 0).path} |->
                     JsonDump(StoredDoc(<<"a">>, <<"H", "i">>, 0))]],
      [index |-> Some([n \in {<<"b">>} |-> IndexEntry(n, 0)]),
       files |-> <<>>],
      [index |-> Some([n \in MixedNames |-> IndexEntry(n, 0)]),
       files |-> [f \in {IndexEntry(n, 0).path : n \in MixedNames} |->
                     MixedFile(f.file)]] }

\* ------------------------------------------------------------------- state
VARIABLES
    notes,        \* self.notes: name -> Note
    lock,         \* self._lock is held
    waiters,      \* callers queued on self._lock, in arrival order
    acquired,     \* callers that took the lock and have not yet run
    subscribers,  \* self._subscribers: sequence of queues
    queues,       \* the queues handed out by subscribe_to_changes
    qlen,         \* number of items in each queue
    index_file,   \* contents of notes/index.json (Optional)
    note_files,   \* path -> document, for every note file on disk
    backup_files, \* the files in notes/backups
    now,          \* the clock read by datetime.now()
    pc,           \* each caller's position
    result,       \* what each caller's operation returned or raised
    last_write    \* how the most recent atomic write went

vars == <<notes, lock, waiters, acquired, subscribers, queues, qlen,
          index_file, note_files, backup_files, now, pc, result, last_write>>

\* the storage directory, and the outcome of the last atomic write to it
disk == <<index_file, note_files, backup_files, last_write>>
subs == <<subscribers, queues, qlen>>

NoCall == [op |-> "none", name |-> None, content |-> None, tags |-> None,
           description |-> None, query |-> None, search_in |-> None,
           match_all_tags |-> FALSE]

NoResult == [call |-> NoCall, status |-> "pending", note |-> None,
             names |-> {}, path |-> None, pre |-> <<>>, post |-> <<>>,
             conc |-> {}]

\* The step of an atomic write that fails: opening the temporary file,
\* writing and syncing it, replacing the target with it; or none.
SaveSteps == {"none", "open", "write", "replace"}

NoWrite == [target |-> "none", step |-> "none", failed |-> FALSE,
            before |-> None, after |-> None, temp_left |-> FALSE,
            raised |-> FALSE]

\* A faulty _save_index, for comparison: the except clause does not unlink
\* the temporary file.
SaveIndexKeepsTemp(old, index, fail) ==
    [target |-> "index", step |-> fail, failed |-> fail # "none",
     before |-> old,
     after |-> IF fail = "none" THEN Some(index) ELSE old,
     temp_left |-> fail \in {"write", "replace"},
     raised |-> FALSE]

\* _save_index(index) on an index file holding `old`: the temporary file is
\* written, flushed and synced, then replaces the index file.  The except
\* clause logs the exception, unlinks the temporary file when it exists, and
\* returns: nothing is raised to the caller.
SaveIndexBody(old, index, fail) ==
    LET temp_exists == fail \in {"write", "replace"}
        unlinked == temp_exists
    IN  [target |-> "index", step |-> fail, failed |-> fail # "none",
         before |-> old,
         after |-> IF fail = "none" THEN Some(index) ELSE old,
         temp_left |-> temp_exists /\ ~unlinked,
         raised |-> FALSE]

SaveIndex(old, index, fail) == SaveIndexBody(old, index, fail)

\* __init__: the index is created when missing, then _load_notes fills the
\* cache.
Construct(store, fail) ==
    /\ last_write = (IF IsNone(store.index)
                     THEN SaveIndex(store.index, <<>>, fail) ELSE NoWrite)
    /\ index_file = (IF IsNone(store.index) THEN last_write.after ELSE store.index)
    /\ note_files = store.files
    /\ notes = LoadNotes(index_file, note_files)

Init ==
    /\ \E store \in InitialStores, fail \in SaveSteps : Construct(store, fail)
    /\ backup_files = {}
    /\ lock = FALSE
    /\ waiters = <<>>
    /\ acquired = <<>>
    /\ subscribers = <<>>
    /\ queues = {}
    /\ qlen = [q \in QueueIds |-> 0]
    /\ now = 0
    /\ pc = [p \in Procs |-> "idle"]
    /\ result = [p \in Procs |-> NoResult]

\* ------------------------------------------------------------------ the lock
\* A caller enters one of the operations and reaches `async with self._lock`.
Call(p) ==
    /\ pc[p] = "idle"
    /\ pc' = [pc EXCEPT ![p] = "waiting"]
    /\ waiters' = Append(waiters, p)
    /\ UNCHANGED <<notes, lock, acquired, subs, disk, now, result>>

\* A faulty acquire, for comparison: the lock is granted without looking at
\* whether it is held.
AcquireUnguarded(p) ==
    /\ pc[p] = "waiting"
    /\ Head(waiters) = p
    /\ lock' = TRUE
    /\ waiters' = Tail(waiters)
    /\ acquired' = Append(acquired, p)
    /\ pc' = [pc EXCEPT ![p] = "locked"]
    /\ UNCHANGED <<notes, subs, disk, now, result>>

\* asyncio.Lock.acquire: granted to the first waiter when the lock is free.
AcquireBody(p) ==
    /\ pc[p] = "waiting"
    /\ ~lock
    /\ Head(waiters) = p
    /\ lock' = TRUE
    /\ waiters' = Tail(waiters)
    /\ acquired' = Append(acquired, p)
    /\ pc' = [pc EXCEPT ![p] = "locked"]
    /\ UNCHANGED <<notes, subs, disk, now, result>>

Acquire(p) == AcquireBody(p)

\* A faulty exit, for comparison: the lock is released on a normal return
\* only, as with an acquire/release pair written without try/finally.
FinishHoldsOnError(p, r, cache) ==
    /\ pc[p] = "locked"
    /\ notes' = cache
    /\ lock' = (r.status # "ok")
    /\ acquired' = SelectSeq(acquired, LAMBDA q : q # p)
    /\ pc' = [pc EXCEPT ![p] = "done"]
    /\ result' = [result EXCEPT ![p] =
                    [r EXCEPT !.pre = notes, !.post = cache,
                              !.conc = {q \in Procs : pc[q] = "waiting"}]]
    /\ UNCHANGED <<waiters>>

\* Leaving `async with self._lock`, by return or by exception, with the
\* outcome r of the operation and the cache as the operation left it.
Finish(p, r, cache) ==
    /\ pc[p] = "locked"
    /\ notes' = cache
    /\ lock' = FALSE
    /\ acquired' = SelectSeq(acquired, LAMBDA q : q # p)
    /\ pc' = [pc EXCEPT ![p] = "done"]
    /\ result' = [result EXCEPT ![p] =
                    [r EXCEPT !.pre = notes, !.post = cache,
                              !.conc = {q \in Procs : pc[q] = "waiting"}]]
    /\ UNCHANGED <<waiters>>

\* The caller takes its result; it may call again.
Return(p) ==
    /\ pc[p] = "done"
    /\ pc' = [pc EXCEPT ![p] = "idle"]
    /\ result' = [q \in Procs |->
                    IF q = p THEN NoResult
                    ELSE [result[q] EXCEPT !.conc = @ \ {p}]]
    /\ UNCHANGED <<notes, lock, waiters, acquired, subs, disk, now>>

\* --------------------------------------------------------------- operations
\* add_note: AlreadyExists for a cached name; otherwise the Note constructor
\* is called without `created` and `modified`, which the dataclass requires,
\* and raises TypeError before anything is saved, cached or notified.
AddNoteBody(p, name, content, tags, description) ==
    LET call == [NoCall EXCEPT !.op = "add", !.name = Some(name),
                               !.content = Some(content), !.tags = tags,
                               !.description = description]
    IN  /\ Finish(p, [NoResult EXCEPT !.call = call,
                        !.status = IF name \in DOMAIN notes
                                   THEN "AlreadyExists" ELSE "TypeError"],
                  notes)
        /\ UNCHANGED <<subs, disk, now>>

AddNote(p) ==
    \E name \in Names, content \in Contents, extra \in AddExtras :
        AddNoteBody(p, name, content, extra.tags, extra.description)

\* A faulty get_note, for comparison: a lookup (dict.get) that returns nothing,
\* instead of raising, for a missing name.
GetNoteLenient(p, name) ==
    LET call == [NoCall EXCEPT !.op = "get", !.name = Some(name)]
    IN  /\ Finish(p, [NoResult EXCEPT !.call = call, !.status = "ok",
                        !.note = IF name \in DOMAIN notes
                                 THEN Some(notes[name]) ELSE None],
                  notes)
        /\ UNCHANGED <<subs, disk, now>>

\* get_note: NotFound for an unknown name, otherwise the cached note
GetNoteBody(p, name) ==
    LET call == [NoCall EXCEPT !.op = "get", !.name = Some(name)]
    IN  /\ Finish(p, IF name \notin DOMAIN notes
                     THEN [NoResult EXCEPT !.call = call, !.status = "NotFound"]
                     ELSE [NoResult EXCEPT !.call = call, !.status = "ok",
                                           !.note = Some(notes[name])],
                  notes)
        /\ UNCHANGED <<subs, disk, now>>

GetNote(p) == \E name \in Names : GetNoteBody(p, name)

\* _notify_changes: one item on the queue of every subscriber
NotifyChanges ==
    [q \in QueueIds |-> IF q \in Range(subscribers) THEN qlen[q] + 1 ELSE qlen[q]]

QueuesHaveRoom == \A q \in QueueIds : qlen[q] < MaxQueued

\* update_note: NotFound for an unknown name; otherwise the supplied fields
\* and `modified` are set on the cached note, _save_note is handed to
\* asyncio.to_thread, which calls it and gets back a coroutine that nobody
\* awaits (nothing is written and nothing can fail), and the subscribers are
\* notified.  The await of to_thread is the only suspension inside a locked
\* section; the other callers stay in front of the lock across it.
UpdatedNote(note, content, tags, description, t) ==
    [note EXCEPT !.content = IF IsNone(content) THEN @ ELSE Val(content),
                 !.tags = IF IsNone(tags) THEN @ ELSE Val(tags),
                 !.description = IF IsNone(description) THEN @ ELSE description,
                 !.modified = t]

UpdateNoteBody(p, name, content, tags, description) ==
    LET call == [NoCall EXCEPT !.op = "update", !.name = Some(name),
                               !.content = content, !.tags = tags,
                               !.description = description]
    IN  IF name \notin DOMAIN notes
        THEN /\ Finish(p, [NoResult EXCEPT !.call = call, !.status = "NotFound"],
                       notes)
             /\ UNCHANGED <<subs, disk, now>>
        ELSE LET note == UpdatedNote(notes[name], content, tags, description, now)
             IN  /\ Finish(p, [NoResult EXCEPT !.call = call, !.status = "ok",
                                               !.note = Some(note)],
                           [notes EXCEPT ![name] = note])
                 /\ qlen' = NotifyChanges
                 /\ UNCHANGED <<subscribers, queues, disk, now>>

UpdateNote(p) ==
    /\ QueuesHaveRoom
    /\ \E name \in Names, fields \in UpdateFields :
          UpdateNoteBody(p, name, fields.content, fields.tags, fields.description)

\* delete_note: NotFound for an unknown name; otherwise the note leaves the
\* cache, its file (at the path recovered through the index) is unlinked when
\* it exists, an unlink error being only logged, and the subscribers are
\* notified.  The index is not touched.
DeleteNoteBody(p, name, unlinked) ==
    LET call == [NoCall EXCEPT !.op = "delete", !.name = Some(name)]
        file_path == GetNotePath(name, None, index_file, now)
    IN  IF name \notin DOMAIN notes
        THEN /\ Finish(p, [NoResult EXCEPT !.call = call, !.status = "NotFound"],
                       notes)
             /\ UNCHANGED <<subs, disk, now>>
        ELSE /\ Finish(p, [NoResult EXCEPT !.call = call, !.status = "ok"],
                       [n \in DOMAIN notes \ {name} |-> notes[n]])
             /\ note_files' =
                    IF file_path \in DOMAIN note_files /\ unlinked
                    THEN [f \in DOMAIN note_files \ {file_path} |-> note_files[f]]
                    ELSE note_files
             /\ qlen' = NotifyChanges
             /\ UNCHANGED <<subscribers, queues, index_file, backup_files,
                            last_write, now>>

DeleteNote(p) ==
    /\ QueuesHaveRoom
    /\ \E name \in Names, unlinked \in BOOLEAN : DeleteNoteBody(p, name, unlinked)

\* list_notes
ListNotesBody(p) ==
    /\ Finish(p, [NoResult EXCEPT !.call = [NoCall EXCEPT !.op = "list"],
                                  !.status = "ok", !.names = DOMAIN notes],
              notes)
    /\ UNCHANGED <<subs, disk, now>>

ListNotes(p) == ListNotesBody(p)

\* A faulty match, for comparison: match_all_tags is ignored and one matching
\* term is always enough.
MatchesAnyTag(note, query0, search_in, match_all_tags) ==
    LET query == Lower(query0)
        search_fields == IF IsNone(search_in) \/ Val(search_in) = {}
                         THEN SearchFields ELSE Val(search_in)
        query_tags == IF "tags" \in search_fields /\ Contains(query, <<",">>)
                      THEN LET parts == Split(query)
                           IN  [i \in DOMAIN parts |-> Strip(parts[i])]
                      ELSE <<query>>
        InSomeTag(qt) == \E i \in DOMAIN note.tags : Contains(Lower(note.tags[i]), qt)
    IN  \/ "content" \in search_fields /\ Contains(Lower(note.content), query)
        \/ /\ "description" \in search_fields
           /\ ~IsNone(note.description)
           /\ Val(note.description) # <<>>
           /\ Contains(Lower(Val(note.description)), query)
        \/ /\ "tags" \in search_fields
           /\ note.tags # <<>>
           /\ \E i \in DOMAIN query_tags : InSomeTag(query_tags[i])

\* search_notes: the match of one note
Matches(note, query0, search_in, match_all_tags) ==
    LET query == Lower(query0)
        search_fields == IF IsNone(search_in) \/ Val(search_in) = {}
                         THEN SearchFields ELSE Val(search_in)
        query_tags == IF "tags" \in search_fields /\ Contains(query, <<",">>)
                      THEN LET parts == Split(query)
                           IN  [i \in DOMAIN parts |-> Strip(parts[i])]
                      ELSE <<query>>
        InSomeTag(qt) == \E i \in DOMAIN note.tags : Contains(Lower(note.tags[i]), qt)
    IN  \/ "content" \in search_fields /\ Contains(Lower(note.content), query)
        \/ /\ "description" \in search_fields
           /\ ~IsNone(note.description)
           /\ Val(note.description) # <<>>
           /\ Contains(Lower(Val(note.description)), query)
        \/ /\ "tags" \in search_fields
           /\ note.tags # <<>>
           /\ IF match_all_tags
              THEN \A i \in DOMAIN query_tags : InSomeTag(query_tags[i])
              ELSE \E i \in DOMAIN query_tags : InSomeTag(query_tags[i])

SearchNotesBody(p, query, search_in, match_all_tags) ==
    LET call == [NoCall EXCEPT !.op = "search", !.query = Some(query),
                               !.search_in = search_in,
                               !.match_all_tags = match_all_tags]
    IN  /\ Finish(p, [NoResult EXCEPT !.call = call, !.status = "ok",
                        !.names = {n \in DOMAIN notes :
                                     Matches(notes[n], query, search_in,
                                             match_all_tags)}],
                  notes)
        /\ UNCHANGED <<subs, disk, now>>

SearchNotes(p) ==
    \E s \in Searches :
        SearchNotesBody(p, s.query, s.search_in, s.match_all_tags)

\* -------------------------------------------------------------- subscribers
\* subscribe_to_changes: a new queue, appended to the subscriber list
SubscribeToChanges ==
    \E q \in QueueIds \ queues :
        /\ \A r \in QueueIds \ queues : q <= r
        /\ queues' = queues \cup {q}
        /\ subscribers' = Append(subscribers, q)
        /\ UNCHANGED <<notes, lock, waiters, acquired, qlen, disk, now, pc, result>>

\* unsubscribe: the queue leaves the list when it is in it
Unsubscribe(q) ==
    /\ q \in queues
    /\ subscribers' = SelectSeq(subscribers, LAMBDA x : x # q)
    /\ UNCHANGED <<notes, lock, waiters, acquired, queues, qlen, disk, now, pc, result>>

\* ------------------------------------------------------------------ restart
\* The process ends with no operation in flight and a new ResourceManager is
\* constructed on the same storage directory.
Restart ==
    /\ \A p \in Procs : pc[p] = "idle"
    /\ \E fail \in SaveSteps :
          /\ last_write' = (IF IsNone(index_file)
                            THEN SaveIndex(index_file, <<>>, fail) ELSE NoWrite)
          /\ index_file' = (IF IsNone(index_file) THEN last_write'.after
                            ELSE index_file)
          /\ notes' = LoadNotes(index_file', note_files)
    /\ subscribers' = <<>>
    /\ queues' = {}
    /\ qlen' = [q \in QueueIds |-> 0]
    /\ UNCHANGED <<lock, waiters, acquired, note_files, backup_files, now, pc, result>>

\* ------------------------------------------------------------ specification
Tick ==
    /\ now < MaxTime
    /\ now' = now + 1
    /\ UNCHANGED <<notes, lock, waiters, acquired, subs, disk, pc, result>>

Next ==
    \/ \E p \in Procs : Call(p)
    \/ \E p \in Procs : Acquire(p)
    \/ \E p \in Procs : AddNote(p)
    \/ \E p \in Procs : GetNote(p)
    \/ \E p \in Procs : UpdateNote(p)
    \/ \E p \in Procs : DeleteNote(p)
    \/ \E p \in Procs : ListNotes(p)
    \/ \E p \in Procs : SearchNotes(p)
    \/ SubscribeToChanges
    \/ \E q \in QueueIds : Unsubscribe(q)
    \/ Restart
    \/ \E p \in Procs : Return(p)
    \/ Tick

Spec == Init /\ [][Next]_vars

\* The event loop runs every task that is ready: a caller at the head of the
\* lock's queue takes the lock once it is free, and a caller inside its locked
\* section runs it to its end (file I/O and queue puts return).  Whether a
\* caller calls at all, or comes back for its result, is left open.
OperationBody(p) ==
    \/ AddNote(p)
    \/ GetNote(p)
    \/ UpdateNote(p)
    \/ DeleteNote(p)
    \/ ListNotes(p)
    \/ SearchNotes(p)

Fairness ==
    \A p \in Procs : WF_vars(Acquire(p)) /\ WF_vars(OperationBody(p))

SpecFair == Init /\ [][Next]_vars /\ Fairness

\* ------------------------------------------------- the functions on notes
\* search_notes and the to_dict/from_dict pair are functions of the notes they
\* are given.  They are applied here to caches drawn from a set of notes that
\* the Note constructor can build, whether or not a manager can come to hold
\* them.
\* tags and description of the sample notes: none of either, tags only, a
\* tag and a description in upper case, an empty description, both
SampleShapes ==
    { [tags |-> <<>>, description |-> None],
      [tags |-> << <<"u">>, <<"d">> >>, description |-> None],
      [tags |-> << <<"H", "u">> >>, description |-> Some(<<"H", "e">>)],
      [tags |-> <<>>, description |-> Some(<<>>)],
      [tags |-> << <<"u">>, <<"d">> >>, description |-> Some(<<"H", "e">>)] }
SampleNotes(name) ==
    {NewNote(name, content, 0, modified, shape.tags, shape.description) :
        content \in Contents, modified \in {0, MaxTime}, shape \in SampleShapes}

\* two names that differ in a character that is not alphanumeric, "-" or "_"
TwinNames == {<<"a", " ">>, <<"a", "_">>}

\* caches of one note, caches of two whose second note has tags, and a cache
\* of two notes with twin names created at the same time
SampleCaches ==
    {[n \in TwinNames |-> NewNote(n, <<"H", "i">>, 0, 0, <<>>, None)]} \cup
    {[n \in {<<"a">>} |-> note] : note \in SampleNotes(<<"a">>)}
    \cup {[n \in Names |-> IF n = <<"a">> THEN note
                           ELSE NewNote(n, <<"y", "o">>, 0, 0,
                                        << <<"u">>, <<"d">> >>, None)] :
             note \in {m \in SampleNotes(<<"a">>) :
                          m.modified = 0 /\ m.content = <<"H", "i">>}}

\* a word in each field, terms separated by commas with and without blanks,
\* a term with a leading blank, the empty query; with the default fields and
\* with each field alone
SampleSearches ==
    { [query |-> <<"h">>, search_in |-> None, match_all_tags |-> FALSE],
      [query |-> <<"h">>, search_in |-> Some({"description"}), match_all_tags |-> FALSE],
      [query |-> <<"h">>, search_in |-> Some({"content"}), match_all_tags |-> TRUE],
      [query |-> <<"u", ",", "f">>, search_in |-> Some({"tags"}), match_all_tags |-> TRUE],
      [query |-> <<"u", ",", "f">>, search_in |-> Some({"tags"}), match_all_tags |-> FALSE],
      [query |-> <<"u", ",", "f">>, search_in |-> None, match_all_tags |-> TRUE],
      [query |-> <<"u", ",", " ", "d">>, search_in |-> Some({"tags"}), match_all_tags |-> TRUE],
      [query |-> <<"u", ",", " ", "d">>, search_in |-> Some({"content"}), match_all_tags |-> FALSE],
      [query |-> <<" ", "u">>, search_in |-> Some({"tags"}), match_all_tags |-> FALSE],
      [query |-> <<>>, search_in |-> Some({"description"}), match_all_tags |-> FALSE] }

InitFunctions ==
    /\ notes \in SampleCaches
    /\ index_file = None
    /\ note_files = <<>>
    /\ backup_files = {}
    /\ last_write = NoWrite
    /\ lock = FALSE
    /\ waiters = <<>>
    /\ acquired = <<>>
    /\ subscribers = <<>>
    /\ queues = {}
    /\ qlen = [q \in QueueIds |-> 0]
    /\ now = 0
    /\ pc = [p \in Procs |-> "idle"]
    /\ result = [p \in Procs |-> NoResult]

\* search_notes with arguments from the larger set
SearchSampled(p) ==
    \E s \in SampleSearches :
        SearchNotesBody(p, s.query, s.search_in, s.match_all_tags)

\* Note.from_dict(note.to_dict()) for a note of the cache; to_dict leaves its
\* checksum in the note.
RoundTrip(p) ==
    \E name \in DOMAIN notes :
        LET r == FromDict(ToDict(notes[name]))
        IN  /\ pc[p] = "idle"
            /\ notes' = [notes EXCEPT ![name] = Checksummed(@)]
            /\ pc' = [pc EXCEPT ![p] = "done"]
            /\ result' = [result EXCEPT ![p] =
                  [NoResult EXCEPT
                      !.call = [NoCall EXCEPT !.op = "roundtrip",
                                              !.name = Some(name)],
                      !.status = IF r.ok THEN "ok" ELSE r.err,
                      !.note = IF r.ok THEN Some(r.note) ELSE None,
                      !.pre = notes, !.post = notes']]
            /\ UNCHANGED <<lock, waiters, acquired, subs, disk, now>>

\* _get_note_path(name, note.created) for a note of the cache, as _save_note
\* calls it
NotePath(p) ==
    \E name \in DOMAIN notes :
        /\ pc[p] = "idle"
        /\ pc' = [pc EXCEPT ![p] = "done"]
        /\ result' = [result EXCEPT ![p] =
              [NoResult EXCEPT
                  !.call = [NoCall EXCEPT !.op = "path", !.name = Some(name)],
                  !.status = "ok",
                  !.path = Some(GetNotePath(name, Some(notes[name].created),
                                            index_file, now)),
                  !.pre = notes, !.post = notes]]
        /\ UNCHANGED <<notes, lock, waiters, acquired, subs, disk, now>>

NextFunctions ==
    \/ \E p \in Procs : Call(p)
    \/ \E p \in Procs : Acquire(p)
    \/ \E p \in Procs : SearchSampled(p)
    \/ \E p \in Procs : RoundTrip(p)
    \/ \E p \in Procs : NotePath(p)
    \/ \E p \in Procs : Return(p)

SpecFunctions == InitFunctions /\ [][NextFunctions]_vars

\* ------------------------------------------------------- reachability facts
\* Nothing ever enters the cache: _load_notes loads nothing because from_dict
\* raises on every document, and add_note raises before it inserts.
NoNoteIsEverCached == notes = <<>>

\* No add, update or delete ever returns successfully, and nothing is ever
\* written to a note file, the index, a backup or a queue after construction.
NoMutationSucceeds ==
    \A p \in Procs :
        pc[p] = "done" /\ result[p].call.op \in {"add", "update", "delete"}
            => result[p].status # "ok"

StorageIsNeverWritten ==
    [][(~ \A p \in Procs : pc[p] = "idle")
          => UNCHANGED <<index_file, note_files, backup_files, qlen>>]_vars

\* ------------------------------------------------------------------- claims
Done(p, op) == pc[p] = "done" /\ result[p].call.op = op
NameOf(p) == Val(result[p].call.name)
\* caller p leaves the locked section of a read operation in this step
ReadStep(p) ==
    /\ pc[p] = "locked"
    /\ pc'[p] = "done"
    /\ result'[p].call.op \in {"get", "list", "search"}

\* C1: add of a name that is not in the cache succeeds and the cache then
\* holds a note of that name with exactly the given content; add of a name
\* that is in the cache fails with AlreadyExists and leaves the cache as it was.
C1_AddThenGet ==
    \A p \in Procs :
        Done(p, "add") =>
            IF NameOf(p) \notin DOMAIN result[p].pre
            THEN /\ result[p].status = "ok"
                 /\ NameOf(p) \in DOMAIN result[p].post
                 /\ result[p].post[NameOf(p)].content = Val(result[p].call.content)
            ELSE /\ result[p].status = "AlreadyExists"
                 /\ result[p].post = result[p].pre

\* C8: get fails with NotFound exactly when the name is not in the cache and
\* otherwise returns the cached note; list returns exactly the cache keys;
\* get, list and search leave the cache, the index, the note files, the
\* backups, the subscriber list and every queue unchanged.
C8_ReadsAreReadOnly ==
    [][\A p \in Procs :
          ReadStep(p) =>
             /\ UNCHANGED <<notes, index_file, note_files, backup_files,
                            subscribers, queues, qlen>>
             /\ result'[p].call.op = "get" =>
                    LET name == Val(result'[p].call.name)
                    IN  /\ (result'[p].status = "NotFound") <=> (name \notin DOMAIN notes)
                        /\ result'[p].status \in {"NotFound", "ok"}
                        /\ name \in DOMAIN notes => result'[p].note = Some(notes[name])
             /\ result'[p].call.op = "list" =>
                    /\ result'[p].status = "ok"
                    /\ result'[p].names = DOMAIN notes]_vars

\* a get of a missing name and a list have both returned
C8_Witness ==
    \E p, q \in Procs :
        /\ Done(p, "get") /\ result[p].status = "NotFound"
        /\ NameOf(p) \notin DOMAIN result[p].pre
        /\ Done(q, "list") /\ result[q].names = DOMAIN result[q].pre

\* C9: two callers whose add calls, for distinct names that are not in the
\* cache, are in flight together both succeed; afterwards the cache holds
\* both notes and the index has an entry for both names.
C9_ConcurrentAdds ==
    \A p, q \in Procs :
        ( /\ p # q
          /\ Done(p, "add") /\ Done(q, "add")
          /\ q \in result[p].conc
          /\ NameOf(p) # NameOf(q)
          /\ {NameOf(p), NameOf(q)} \cap DOMAIN result[p].pre = {}
          /\ result[q].pre = result[p].post )
        => /\ result[p].status = "ok"
           /\ result[q].status = "ok"
           /\ {NameOf(p), NameOf(q)} \subseteq DOMAIN result[q].post
           /\ {NameOf(p), NameOf(q)} \subseteq DOMAIN LoadIndex(index_file)

\* C10: at most one operation is inside its locked section; the operation
\* inside is the one that acquired the lock earliest among those that have not
\* yet taken effect; while an operation is inside no other has taken the lock,
\* so what a reader sees is never a cache in the middle of a mutation.
C10_Serialized ==
    /\ Cardinality({p \in Procs : pc[p] = "locked"}) <= 1
    /\ lock <=> (\E p \in Procs : pc[p] = "locked")
    /\ \A p \in Procs : pc[p] = "locked" => acquired = <<p>>
    /\ (\A p \in Procs : pc[p] # "locked") => acquired = <<>>

\* a caller is inside its section after waiting for the other to leave its own
C10_Witness ==
    \E p, q \in Procs :
        /\ pc[p] = "locked"
        /\ pc[q] = "done" /\ p \in result[q].conc

\* The notes that a startup is to load: the indexed names whose file exists,
\* parses, has a supported version and a checksum that is absent or equal to
\* the hash of its content, created and modified.
StartupLoads(idx, files) ==
    {n \in DOMAIN LoadIndex(idx) :
        LET path == LoadIndex(idx)[n].path
        IN  /\ path \in DOMAIN files
            /\ JsonLoad(files[path]).ok
            /\ LET doc == JsonLoad(files[path]).value
               IN  /\ doc.version <= VERSION
                   /\ \/ IsNone(doc.metadata.checksum)
                      \/ Val(doc.metadata.checksum) =
                            Checksum(doc.content, FromIsoFormat(doc.created),
                                     FromIsoFormat(doc.modified))}

\* C12: whatever the index and the note files are, a startup completes and
\* the cache then holds exactly the indexed notes whose file exists, parses,
\* has a supported version and a matching or absent checksum; the bad notes
\* are skipped and every valid note is loaded.
C12_StartupLoadsValidNotes ==
    [][Restart => DOMAIN notes' = StartupLoads(index_file', note_files')]_vars

\* C17 as stated: when a step of an atomic write fails, the temporary file
\* is removed, the target keeps its previous bytes, and the error is raised
\* to the caller of the write.
C17_FailedWriteRaises ==
    last_write.failed =>
        /\ ~last_write.temp_left
        /\ last_write.after = last_write.before
        /\ last_write.raised

\* C17, amended: when a step of an atomic write fails, the temporary file is
\* removed and the target keeps its previous bytes; the error is raised to
\* the caller when the target is a note file, and is only logged, the write
\* returning normally, when the target is the index.
C17_FailedWriteLeavesTarget ==
    last_write.failed =>
        /\ ~last_write.temp_left
        /\ last_write.after = last_write.before
        /\ last_write.raised <=> (last_write.target = "note")

\* the replace of the index failed during construction, the index file is
\* still missing, and the manager went on to serve a caller
C17_Witness ==
    /\ last_write.failed
    /\ last_write.target = "index"
    /\ last_write.step = "replace"
    /\ IsNone(index_file)
    /\ \E p \in Procs : pc[p] = "done"

\* C13: for every note, from_dict(to_dict(note)) succeeds and yields a note
\* with the same content, tags, description, created and modified, and the
\* checksum stored in the document equals the hash recomputed from content,
\* created and modified.
C13_RoundTrip ==
    \A p \in Procs :
        Done(p, "roundtrip") =>
            LET note == result[p].pre[NameOf(p)]
                doc == ToDict(note)
            IN  /\ result[p].status = "ok"
                /\ ~IsNone(result[p].note)
                /\ Val(result[p].note).content = note.content
                /\ Val(result[p].note).tags = note.tags
                /\ Val(result[p].note).description = note.description
                /\ Val(result[p].note).created = note.created
                /\ Val(result[p].note).modified = note.modified
                /\ doc.metadata.checksum =
                      Some(Checksum(doc.content, FromIsoFormat(doc.created),
                                    FromIsoFormat(doc.modified)))

\* The match of one note as the search contract words it.  The terms are the
\* trimmed pieces of the query when it has commas and the query itself when
\* it has none; a description is present when it is set and not empty; an
\* absent or empty field list stands for all three fields.
SearchTerms(query) ==
    IF \E i \in DOMAIN query : query[i] = ","
    THEN {Strip(t) : t \in Range(Split(query))}
    ELSE {query}

SearchHit(note, query, search_in, match_all_tags) ==
    LET q == Lower(query)
        fields == IF search_in \in {None, Some({})} THEN SearchFields
                  ELSE Val(search_in)
        tags == {Lower(t) : t \in Range(note.tags)}
        hits == {term \in SearchTerms(q) : \E t \in tags : Contains(t, term)}
    IN  \/ "content" \in fields /\ Contains(Lower(note.content), q)
        \/ /\ "description" \in fields
           /\ note.description \notin {None, Some(<<>>)}
           /\ Contains(Lower(Val(note.description)), q)
        \/ /\ "tags" \in fields
           /\ tags # {}
           /\ IF match_all_tags THEN hits = SearchTerms(q) ELSE hits # {}

\* C14: search returns exactly the cached notes for which one of these
\* holds, letter case ignored: content is a search field and contains the
\* whole query; description is a search field, is present and contains the
\* whole query; tags is a search field, the note has tags, and every term
\* (match_all_tags) or at least one term (otherwise) is a substring of some
\* tag of the note.
C14_SearchResult ==
    \A p \in Procs :
        Done(p, "search") =>
            result[p].names =
                {n \in DOMAIN result[p].pre :
                    SearchHit(result[p].pre[n], Val(result[p].call.query),
                              result[p].call.search_in,
                              result[p].call.match_all_tags)}

\* the note tagged u and d is searched by tag for "u,f": it is missed when
\* all terms must match and found when one is enough
C14_Witness ==
    \E p, q \in Procs :
        /\ Done(p, "search") /\ Done(q, "search")
        /\ result[p].call.query = Some(<<"u", ",", "f">>)
        /\ result[q].call.query = Some(<<"u", ",", "f">>)
        /\ result[p].call.search_in = Some({"tags"})
        /\ result[q].call.search_in = Some({"tags"})
        /\ result[p].call.match_all_tags /\ ~result[q].call.match_all_tags
        /\ <<"a">> \in DOMAIN result[p].pre
        /\ result[p].pre[<<"a">>].tags = << <<"u">>, <<"d">> >>
        /\ result[q].pre = result[p].pre
        /\ <<"a">> \notin result[p].names
        /\ <<"a">> \in result[q].names

\* C21: the lock is released when an operation ends, by return or by error,
\* and every caller waiting for the lock eventually acquires it and completes
\* its operation.
C21_LockReleased ==
    /\ [][\A p \in Procs : pc[p] = "locked" /\ pc'[p] = "done" => ~lock']_vars
    /\ \A p \in Procs : (pc[p] = "waiting") ~> (pc[p] = "done")

\* an operation ended with an error while another caller was waiting for the
\* lock, and that caller has since completed its own operation
C21_Witness ==
    \E p, q \in Procs :
        /\ p # q
        /\ pc[q] = "done"
        /\ result[q].status \in {"TypeError", "NotFound"}
        /\ p \in result[q].conc
        /\ pc[p] = "done"
        /\ ~lock

\* C22: two distinct names of the cache, also names that differ only in
\* characters that sanitization replaces and whose notes were created in the
\* same year and month, are backed by distinct files.
C22_DistinctFiles ==
    \A p, q \in Procs :
        ( /\ Done(p, "path") /\ Done(q, "path")
          /\ result[p].pre = result[q].pre
          /\ NameOf(p) # NameOf(q) )
        => result[p].path # result[q].path
====
